---- MODULE Spec2Model ----
(***************************************************************************)
(* Model of build.py: a sequential build pipeline for a Go shared library  *)
(* (ensure_dirs, go_mod_init, go_build, generate_def, generate_lib,        *)
(* copy_dll, copy_dll_to_test_dir), its alternate entry point clean, and   *)
(* the pure text function generate_def_content.                            *)
(*                                                                         *)
(* The script is run repeatedly against one file system: the file system   *)
(* persists from one run to the next, everything else is per run.          *)
(***************************************************************************)
EXTENDS Integers, Sequences, FiniteSets, TLC

VARIABLES
    run,            \* number of the current run of the script
    pc,             \* position of the current run
    args_clean,     \* args.clean of the current run
    fs,             \* the paths that exist in the file system
    status,         \* per stage: "pending", "ok" or "failed" (this run)
    started,        \* the stages started in this run, in order
    cmds,           \* run_command calls of this run: <<command, outcome>>
    unlinks,        \* path.unlink() calls of this run: <<path, ok>>
    copies,         \* shutil.copy2 calls of this run: <<stage, dst, ok>>
    sleeps,         \* time.sleep calls of this run: <<dst, tenths of a second>>
    test_idx,       \* copy_dll_to_test_dir: index into TEST_DIRS
    attempt,        \* copy_with_retry: the loop variable, 0 = not in the loop
    clean_idx,      \* clean: index into the list of paths
    failure,        \* the fatal condition that ended this run, or "none"
    exit_status,    \* -1 while running, else the exit status of the process
    mod_init,       \* go_mod_init calls over all runs: <<marker before, invoked, marker after, returned>>
    def_file,       \* text written to EXPORT_DEF
    rows,           \* generate_def_content harness: the lines the input was built from
    dumpbin_output, \* generate_def_content harness: the input text
    def_content     \* generate_def_content harness: the result, or <<"?">> before the call

vars == <<run, pc, args_clean, fs, status, started, cmds, unlinks, copies,
          sleeps, test_idx, attempt, clean_idx, failure, exit_status,
          mod_init, def_file, rows, dumpbin_output, def_content>>

pipeVars == <<run, pc, args_clean, fs, status, started, cmds, unlinks, copies,
              sleeps, test_idx, attempt, clean_idx, failure, exit_status,
              mod_init, def_file>>

defVars == <<rows, dumpbin_output, def_content>>

----------------------------------------------------------------------------
(* Bounds *)

MaxRuns == 2
MaxLines == 3

----------------------------------------------------------------------------
(* Constants and paths *)

FFI_DIR == "go_lib"
GO_MOD == "go_lib/go.mod"
EXPORT_DLL == "go_lib/go_lib.dll"
EXPORT_DEF == "go_lib/go_lib.def"
EXPORT_LIB == "go_lib/go_lib.lib"
TARGET_DIR == "target/debug"
TARGET_DLL == "target/debug/go_lib.dll"
TEST_DIRS == <<"target/debug/deps", "target/debug">>
RETRIES == 5
CLEAN_PATHS == <<EXPORT_DLL, EXPORT_DEF, EXPORT_LIB>>

\* test_dir / f"{EXPORT_NAME}.dll"
TestDll(test_dir) ==
    IF test_dir = "target/debug" THEN "target/debug/go_lib.dll"
    ELSE "target/debug/deps/go_lib.dll"

\* what `cargo clean` removes: the target directory
TargetPaths == {TARGET_DIR, "target/debug/deps", TARGET_DLL,
                "target/debug/deps/go_lib.dll"}

----------------------------------------------------------------------------
(* build_all: the stages in call order *)

\* copy_dll called before generate_lib
BUILD_ORDER_copy_first ==
    <<"ensure_dirs", "go_mod_init", "go_build", "generate_def",
      "copy_dll", "generate_lib", "copy_dll_to_test_dir">>

BUILD_ORDER ==
    <<"ensure_dirs", "go_mod_init", "go_build", "generate_def",
      "generate_lib", "copy_dll", "copy_dll_to_test_dir">>

Stages == {BUILD_ORDER[i] : i \in 1..Len(BUILD_ORDER)}

StageIndex(stage) == CHOOSE i \in 1..Len(BUILD_ORDER) : BUILD_ORDER[i] = stage

\* outcomes of run_command: the tool exits 0, the tool exits non-zero
\* (CalledProcessError), or subprocess.run raises another exception because
\* the tool cannot be started (not caught by any handler)
Outcomes == {"ok", "nonzero", "oserror"}

\* a stage function returns to build_all, which calls the next stage or
\* returns to main, and the process ends with status 0
Return(stage) ==
    /\ status' = [status EXCEPT ![stage] = "ok"]
    /\ failure' = failure
    /\ IF StageIndex(stage) < Len(BUILD_ORDER)
       THEN /\ pc' = BUILD_ORDER[StageIndex(stage) + 1]
            /\ started' = Append(started, BUILD_ORDER[StageIndex(stage) + 1])
            /\ exit_status' = exit_status
       ELSE /\ pc' = "exit"
            /\ started' = started
            /\ exit_status' = 0

\* sys.exit(code) in a stage's handler
SysExit(stage, kind, code) ==
    /\ status' = [status EXCEPT ![stage] = "failed"]
    /\ failure' = kind
    /\ pc' = "exit"
    /\ started' = started
    /\ exit_status' = code

\* an exception no handler catches: traceback, exit status 1
Uncaught(stage) == SysExit(stage, "uncaught", 1)

----------------------------------------------------------------------------
(* main *)

\* if not args.clean:
clean_selected_inverted(c) == ~c

\* if args.clean:
clean_selected(c) == c

main ==
    /\ pc = "main"
    /\ \E c \in BOOLEAN :
          /\ args_clean' = c
          /\ IF clean_selected(c)
             THEN /\ pc' = "clean"
                  /\ started' = started
             ELSE /\ pc' = BUILD_ORDER[1]
                  /\ started' = <<BUILD_ORDER[1]>>
    /\ clean_idx' = 1
    /\ UNCHANGED <<run, fs, status, cmds, unlinks, copies, sleeps, test_idx,
                   attempt, failure, exit_status, mod_init, def_file>>

----------------------------------------------------------------------------
(* ensure_dirs *)

ensure_dirs ==
    /\ pc = "ensure_dirs"
    /\ IF FFI_DIR \notin fs
       THEN \E made \in BOOLEAN :
               IF made
               THEN fs' = fs \cup {FFI_DIR} /\ Return("ensure_dirs")
               ELSE fs' = fs /\ Uncaught("ensure_dirs")
       ELSE fs' = fs /\ Return("ensure_dirs")
    /\ UNCHANGED <<run, args_clean, cmds, unlinks, copies, sleeps, test_idx,
                   attempt, clean_idx, mod_init, def_file>>

----------------------------------------------------------------------------
(* go_mod_init *)

\* the marker is not looked at
go_mod_exists_unchecked == FALSE

\* go_mod.exists()
go_mod_exists == GO_MOD \in fs

go_mod_init_exit == 1

go_mod_init ==
    /\ pc = "go_mod_init"
    /\ IF go_mod_exists
       THEN /\ mod_init' = Append(mod_init, <<GO_MOD \in fs, FALSE, GO_MOD \in fs, TRUE>>)
            /\ cmds' = cmds
            /\ fs' = fs
            /\ Return("go_mod_init")
       ELSE \E out \in Outcomes, created \in BOOLEAN :
               /\ out # "ok" => ~created
               /\ cmds' = Append(cmds, <<"go mod init", out>>)
               /\ fs' = IF created THEN fs \cup {GO_MOD} ELSE fs
               /\ mod_init' = Append(mod_init, <<GO_MOD \in fs, TRUE, GO_MOD \in fs',
                                               out = "ok">>)
               /\ CASE out = "ok" -> Return("go_mod_init")
                    [] out = "nonzero" ->
                         SysExit("go_mod_init", "go_mod_init", go_mod_init_exit)
                    [] out = "oserror" -> Uncaught("go_mod_init")
    /\ UNCHANGED <<run, args_clean, unlinks, copies, sleeps, test_idx,
                   attempt, clean_idx, def_file>>

----------------------------------------------------------------------------
(* go_build *)

\* the check after the build is left out
dll_missing_unchecked(files) == FALSE

\* not EXPORT_DLL.exists()
dll_missing(files) == EXPORT_DLL \notin files

go_build_exit == 1

go_build ==
    /\ pc = "go_build"
    /\ \E out \in Outcomes, produced \in BOOLEAN :
          /\ out # "ok" => ~produced
          /\ cmds' = Append(cmds, <<"go build", out>>)
          /\ fs' = IF produced THEN fs \cup {EXPORT_DLL} ELSE fs
          /\ CASE out = "ok" ->
                    IF dll_missing(fs')
                    THEN SysExit("go_build", "dll_missing", go_build_exit)
                    ELSE Return("go_build")
               [] out = "nonzero" -> SysExit("go_build", "go_build", go_build_exit)
               [] out = "oserror" -> Uncaught("go_build")
    /\ UNCHANGED <<run, args_clean, unlinks, copies, sleeps, test_idx,
                   attempt, clean_idx, mod_init, def_file>>

----------------------------------------------------------------------------
(* generate_def_content: text is a sequence of characters.  SUP2 stands    *)
(* for U+00B2 SUPERSCRIPT TWO, a character for which str.isdigit() is True *)
(* and which is not a decimal digit.                                       *)

DecimalDigits == {"0", "1", "2", "3"}
SUP2 == "SUP2"

\* the characters str.isdigit() accepts
IsDigitChar(c) == c \in DecimalDigits \cup {SUP2}

\* the characters str.split() treats as separators
IsSpaceChar(c) == c \in {" ", "\t", "\n", "\r", "\f"}

\* the line boundaries of str.splitlines()
IsLineBreak(c) == c \in {"\n", "\r", "\f"}

RECURSIVE SplitLinesFrom(_, _, _)
\* text[i..], cur = the characters of the line being read
SplitLinesFrom(text, i, cur) ==
    IF i > Len(text)
    THEN IF cur = <<>> THEN <<>> ELSE <<cur>>
    ELSE IF IsLineBreak(text[i])
         THEN LET skip == IF /\ text[i] = "\r"
                             /\ i < Len(text)
                             /\ text[i + 1] = "\n"
                          THEN 2 ELSE 1
              IN  <<cur>> \o SplitLinesFrom(text, i + skip, <<>>)
         ELSE SplitLinesFrom(text, i + 1, Append(cur, text[i]))

\* str.splitlines(): no empty last line after a final line boundary
splitlines(text) == SplitLinesFrom(text, 1, <<>>)

RECURSIVE SplitFrom(_, _, _)
SplitFrom(line, i, cur) ==
    IF i > Len(line)
    THEN IF cur = <<>> THEN <<>> ELSE <<cur>>
    ELSE IF IsSpaceChar(line[i])
         THEN (IF cur = <<>> THEN <<>> ELSE <<cur>>) \o SplitFrom(line, i + 1, <<>>)
         ELSE SplitFrom(line, i + 1, Append(cur, line[i]))

\* str.split(): runs of whitespace separate, no empty tokens
split(line) == SplitFrom(line, 1, <<>>)

\* str.isdigit(): non-empty and every character is a digit character
isdigit(tok) == Len(tok) > 0 /\ \A i \in 1..Len(tok) : IsDigitChar(tok[i])

RECURSIVE join(_, _)
\* sep.join(items)
join(sep, items) ==
    IF items = <<>> THEN <<>>
    ELSE IF Len(items) = 1 THEN items[1]
    ELSE items[1] \o sep \o join(sep, Tail(items))

\* the condition of the loop body
is_export_row(parts) == Len(parts) > 3 /\ isdigit(parts[1])

RECURSIVE DefLinesLoop(_, _, _)
\* for line in lines: ... def_lines.append(parts[3])
DefLinesLoop(lines, i, def_lines) ==
    IF i > Len(lines) THEN def_lines
    ELSE LET parts == split(lines[i])
         IN  DefLinesLoop(lines, i + 1,
                          IF is_export_row(parts)
                          THEN Append(def_lines, parts[4])
                          ELSE def_lines)

EXPORTS == <<"E", "X", "P", "O", "R", "T", "S">>

generate_def_content(text) ==
    join(<<"\n">>, DefLinesLoop(splitlines(text), 1, <<EXPORTS>>))

----------------------------------------------------------------------------
(* generate_def *)

\* the texts dumpbin prints in the pipeline: two export rows under a header,
\* and a listing without export rows
StageOutputs ==
    { <<"o", " ", "h", " ", "R", " ", "n", "\n",
        "1", " ", "0", " ", "0", " ", "A", "\n",
        "2", " ", "1", " ", "0", " ", "B", "\n">>,
      <<"o", " ", "h", " ", "R", " ", "n", "\n">> }

generate_def_exit == 1

generate_def ==
    /\ pc = "generate_def"
    /\ \E out \in Outcomes, stdout \in StageOutputs, written \in BOOLEAN :
          /\ out # "ok" => (~written /\ stdout = <<"o", " ", "h", " ", "R", " ", "n", "\n">>)
          /\ cmds' = Append(cmds, <<"dumpbin", out>>)
          /\ fs' = IF written THEN fs \cup {EXPORT_DEF} ELSE fs
          /\ def_file' = IF written THEN generate_def_content(stdout) ELSE def_file
          /\ CASE out = "ok" ->
                    IF written
                    THEN Return("generate_def")
                    ELSE SysExit("generate_def", "def_write", generate_def_exit)
               [] out = "nonzero" ->
                    SysExit("generate_def", "dumpbin", generate_def_exit)
               [] out = "oserror" -> Uncaught("generate_def")
    /\ UNCHANGED <<run, args_clean, unlinks, copies, sleeps, test_idx,
                   attempt, clean_idx, mod_init>>

----------------------------------------------------------------------------
(* generate_lib *)

generate_lib_exit == 1

\* the handler logs the error and the function goes on to its end
generate_lib_except_logged == Return("generate_lib")

\* except subprocess.CalledProcessError as e: logging.error(...); sys.exit(1)
generate_lib_except == SysExit("generate_lib", "dlltool", generate_lib_exit)

generate_lib ==
    /\ pc = "generate_lib"
    /\ \E out \in Outcomes :
          /\ cmds' = Append(cmds, <<"dlltool", out>>)
          /\ fs' = IF out = "ok" THEN fs \cup {EXPORT_LIB} ELSE fs
          /\ CASE out = "ok" -> Return("generate_lib")
               [] out = "nonzero" -> generate_lib_except
               [] out = "oserror" -> Uncaught("generate_lib")
    /\ UNCHANGED <<run, args_clean, unlinks, copies, sleeps, test_idx,
                   attempt, clean_idx, mod_init, def_file>>

----------------------------------------------------------------------------
(* copy_dll *)

copy_dll_exit == 1

\* the handler logs and the copy is tried again
copy_dll_except_retry == UNCHANGED <<pc, started, status, failure, exit_status>>

\* except Exception as e: logging.error(...); sys.exit(1)
copy_dll_except == SysExit("copy_dll", "copy_dll", copy_dll_exit)

\* mkdir(parents=True, exist_ok=True) can raise only when it has to create
copy_dll ==
    /\ pc = "copy_dll"
    /\ \E made \in BOOLEAN, copied \in BOOLEAN :
          /\ TARGET_DIR \in fs => made
          /\ ~made => ~copied
          /\ IF ~made
             THEN /\ fs' = fs
                  /\ copies' = copies
                  /\ Uncaught("copy_dll")
             ELSE /\ copies' = Append(copies, <<"copy_dll", TARGET_DLL, copied>>)
                  /\ IF copied
                     THEN /\ fs' = fs \cup {TARGET_DIR, TARGET_DLL}
                          /\ Return("copy_dll")
                     ELSE /\ fs' = fs \cup {TARGET_DIR}
                          /\ copy_dll_except
    /\ test_idx' = 1
    /\ attempt' = 0
    /\ UNCHANGED <<run, args_clean, cmds, unlinks, sleeps, clean_idx,
                   mod_init, def_file>>

----------------------------------------------------------------------------
(* copy_dll_to_test_dir and copy_with_retry *)

\* attempt <= retries
retry_again_inclusive(n, retries) == n <= retries

\* attempt < retries
retry_again(n, retries) == n < retries

\* time.sleep(0.1 * attempt), in tenths of a second
sleep_tenths(n) == n

copy_dll_to_test_dir_exit == 1

\* the body of the for loop of copy_dll_to_test_dir up to the call of
\* copy_with_retry: test_dir.mkdir(parents=True, exist_ok=True)
test_dir_mkdir ==
    /\ pc = "copy_dll_to_test_dir"
    /\ attempt = 0
    /\ \E made \in BOOLEAN :
          /\ TEST_DIRS[test_idx] \in fs => made
          /\ IF made
             THEN /\ fs' = fs \cup {TEST_DIRS[test_idx]}
                  /\ attempt' = 1
                  /\ UNCHANGED <<pc, started, status, failure, exit_status>>
             ELSE /\ fs' = fs
                  /\ attempt' = attempt
                  /\ Uncaught("copy_dll_to_test_dir")
    /\ UNCHANGED <<run, args_clean, cmds, unlinks, copies, sleeps, test_idx,
                   clean_idx, mod_init, def_file>>

\* copy_with_retry returned: the next test directory, or the stage returns
next_test_dir ==
    IF test_idx < Len(TEST_DIRS)
    THEN /\ test_idx' = test_idx + 1
         /\ attempt' = 0
         /\ UNCHANGED <<pc, started, status, failure, exit_status>>
    ELSE /\ test_idx' = test_idx
         /\ attempt' = 0
         /\ Return("copy_dll_to_test_dir")

\* one iteration of the for loop of copy_with_retry
copy_with_retry ==
    /\ pc = "copy_dll_to_test_dir"
    /\ attempt >= 1
    /\ LET dst == TestDll(TEST_DIRS[test_idx])
       IN  \E copied \in BOOLEAN :
              /\ copies' = Append(copies, <<"copy_dll_to_test_dir", dst, copied>>)
              /\ IF copied
                 THEN /\ fs' = fs \cup {dst}
                      /\ sleeps' = sleeps
                      /\ next_test_dir
                 ELSE /\ fs' = fs
                      /\ IF retry_again(attempt, RETRIES)
                         THEN /\ sleeps' = Append(sleeps, <<dst, sleep_tenths(attempt)>>)
                              /\ IF attempt + 1 <= RETRIES
                                 THEN /\ attempt' = attempt + 1
                                      /\ test_idx' = test_idx
                                      /\ UNCHANGED <<pc, started, status,
                                                     failure, exit_status>>
                                 ELSE next_test_dir
                         ELSE /\ sleeps' = sleeps
                              /\ attempt' = attempt
                              /\ test_idx' = test_idx
                              /\ SysExit("copy_dll_to_test_dir", "aux_copy",
                                         copy_dll_to_test_dir_exit)
    /\ UNCHANGED <<run, args_clean, cmds, unlinks, clean_idx, mod_init, def_file>>

----------------------------------------------------------------------------
(* clean *)

\* no handler around path.unlink(): a failed deletion ends the run
unlink_done_raise(deleted) ==
    IF deleted
    THEN /\ clean_idx' = clean_idx + 1
         /\ UNCHANGED <<pc, failure, exit_status>>
    ELSE /\ clean_idx' = clean_idx
         /\ pc' = "exit"
         /\ failure' = "uncaught"
         /\ exit_status' = 1

\* except Exception: logging.warning(...): the loop goes on
unlink_done(deleted) ==
    /\ clean_idx' = clean_idx + 1
    /\ UNCHANGED <<pc, failure, exit_status>>

\* one iteration of the for loop over [EXPORT_DLL, EXPORT_DEF, EXPORT_LIB]
clean_path ==
    /\ pc = "clean"
    /\ clean_idx <= Len(CLEAN_PATHS)
    /\ LET path == CLEAN_PATHS[clean_idx]
       IN  IF path \in fs
           THEN \E deleted \in BOOLEAN :
                   /\ unlinks' = Append(unlinks, <<path, deleted>>)
                   /\ fs' = IF deleted THEN fs \ {path} ELSE fs
                   /\ unlink_done(deleted)
           ELSE /\ unlinks' = unlinks
                /\ fs' = fs
                /\ clean_idx' = clean_idx + 1
                /\ UNCHANGED <<pc, failure, exit_status>>
    /\ UNCHANGED <<run, args_clean, status, started, cmds, copies, sleeps,
                   test_idx, attempt, mod_init, def_file>>

\* a failed deletion also counts as a failure of clean
cargo_clean_status_strict(out) ==
    IF out = "ok" /\ \A i \in 1..Len(unlinks) : unlinks[i][2] THEN 0 ELSE 1

\* the exit status after run_command(["cargo", "clean"])
cargo_clean_status(out) == IF out = "ok" THEN 0 ELSE 1

cargo_clean ==
    /\ pc = "clean"
    /\ clean_idx > Len(CLEAN_PATHS)
    /\ \E out \in Outcomes :
          /\ cmds' = Append(cmds, <<"cargo clean", out>>)
          /\ fs' = IF out = "ok" THEN fs \ TargetPaths ELSE fs
          /\ failure' = CASE out = "ok" -> "none"
                          [] out = "nonzero" -> "cargo_clean"
                          [] out = "oserror" -> "uncaught"
          /\ exit_status' = cargo_clean_status(out)
    /\ pc' = "exit"
    /\ UNCHANGED <<run, args_clean, status, started, unlinks, copies, sleeps,
                   test_idx, attempt, clean_idx, mod_init, def_file>>

----------------------------------------------------------------------------
(* the script is started again on the same file system *)

run_again ==
    /\ pc = "exit"
    /\ run < MaxRuns
    /\ run' = run + 1
    /\ pc' = "main"
    /\ args_clean' = FALSE
    /\ status' = [s \in Stages |-> "pending"]
    /\ started' = <<>>
    /\ cmds' = <<>>
    /\ unlinks' = <<>>
    /\ copies' = <<>>
    /\ sleeps' = <<>>
    /\ test_idx' = 1
    /\ attempt' = 0
    /\ clean_idx' = 1
    /\ failure' = "none"
    /\ exit_status' = -1
    /\ UNCHANGED <<fs, mod_init, def_file>>

----------------------------------------------------------------------------
(* the file systems a run can start from: the artifact directory with or   *)
(* without go.mod, and any artifacts an earlier run left in it             *)

InitialFileSystems ==
    {{}}
    \cup { base \cup arts :
             base \in {{FFI_DIR}, {FFI_DIR, GO_MOD}},
             arts \in SUBSET {EXPORT_DLL, EXPORT_DEF, EXPORT_LIB} }

InitPipe ==
    /\ run = 1
    /\ pc = "main"
    /\ args_clean = FALSE
    /\ status = [s \in Stages |-> "pending"]
    /\ started = <<>>
    /\ cmds = <<>>
    /\ unlinks = <<>>
    /\ copies = <<>>
    /\ sleeps = <<>>
    /\ test_idx = 1
    /\ attempt = 0
    /\ clean_idx = 1
    /\ failure = "none"
    /\ exit_status = -1
    /\ mod_init = <<>>
    /\ def_file = <<>>

Init ==
    /\ InitPipe
    /\ fs \in InitialFileSystems
    /\ rows = <<>>
    /\ dumpbin_output = <<>>
    /\ def_content = <<>>

Next ==
    \/ main /\ UNCHANGED defVars
    \/ ensure_dirs /\ UNCHANGED defVars
    \/ go_mod_init /\ UNCHANGED defVars
    \/ go_build /\ UNCHANGED defVars
    \/ generate_def /\ UNCHANGED defVars
    \/ generate_lib /\ UNCHANGED defVars
    \/ copy_dll /\ UNCHANGED defVars
    \/ test_dir_mkdir /\ UNCHANGED defVars
    \/ copy_with_retry /\ UNCHANGED defVars
    \/ clean_path /\ UNCHANGED defVars
    \/ cargo_clean /\ UNCHANGED defVars
    \/ run_again /\ UNCHANGED defVars

Spec == Init /\ [][Next]_vars

----------------------------------------------------------------------------
(* generate_def_content applied to dump listings.  A listing is built from *)
(* rows (each a sequence of tokens) and rendered as text in one of two     *)
(* styles; the function sees the text only.                                *)

RowChoices ==
    { <<>>,
      << <<"o">>, <<"h">>, <<"R">>, <<"n">> >>,
      << <<"1">>, <<"0">>, <<"0">>, <<"A">> >>,
      << <<"2">>, <<"1">>, <<"0">>, <<"B">> >>,
      << <<"3">>, <<"2">>, <<"0">>, <<"C">> >>,
      << <<"1">>, <<"0">>, <<"0">> >>,
      << <<"1", "0">>, <<"3">>, <<"0">>, <<"A", "B">>, <<"x">> >>,
      << <<"1", "x">>, <<"0">>, <<"0">>, <<"A">> >>,
      << <<SUP2>>, <<"0">>, <<"0">>, <<"B">> >> }

Styles == {"unix", "dos"}

RECURSIVE Concat(_)
Concat(seqs) == IF seqs = <<>> THEN <<>> ELSE Head(seqs) \o Concat(Tail(seqs))

\* "unix": tokens separated by one space, every line ended by \n;
\* "dos": lines indented, tokens separated by a tab and a space, lines
\* separated by \r\n with no line end after the last one
RenderRow(row, style) ==
    IF style = "unix"
    THEN Concat([i \in 1..Len(row) |->
                    (IF i = 1 THEN <<>> ELSE <<" ">>) \o row[i]])
    ELSE <<" ", " ">> \o
         Concat([i \in 1..Len(row) |->
                    (IF i = 1 THEN <<>> ELSE <<"\t", " ">>) \o row[i]])

Render(rs, style) ==
    IF style = "unix"
    THEN Concat([i \in 1..Len(rs) |-> RenderRow(rs[i], style) \o <<"\n">>])
    ELSE Concat([i \in 1..Len(rs) |->
                    (IF i = 1 THEN <<>> ELSE <<"\r", "\n">>) \o RenderRow(rs[i], style)])

Listings ==
    UNION { [1..n -> RowChoices] : n \in 0..MaxLines }

InitDef ==
    /\ InitPipe
    /\ fs = {}
    /\ rows \in Listings
    /\ \E style \in Styles : dumpbin_output = Render(rows, style)
    /\ def_content = <<>>

apply_generate_def_content ==
    /\ def_content = <<>>
    /\ def_content' = generate_def_content(dumpbin_output)
    /\ UNCHANGED <<rows, dumpbin_output>>
    /\ UNCHANGED pipeVars

NextDef == apply_generate_def_content

SpecDef == InitDef /\ [][NextDef]_vars

----------------------------------------------------------------------------
(* Properties *)

CopiesOf(stage) == SelectSeq(copies, LAMBDA c : c[1] = stage)
AuxCopiesTo(dst) ==
    SelectSeq(copies, LAMBDA c : c[1] = "copy_dll_to_test_dir" /\ c[2] = dst)
SleepsFor(dst) == SelectSeq(sleeps, LAMBDA sl : sl[1] = dst)
Failed(cs) == SelectSeq(cs, LAMBDA c : ~c[3])
Invoked(cmd) == \E i \in 1..Len(cmds) : cmds[i][1] = cmd
AuxDsts == {"target/debug/deps/go_lib.dll", "target/debug/go_lib.dll"}

\* C1: in build mode the stages start in the order ensure_dirs, go_mod_init,
\* go_build, generate_def, generate_lib, copy_dll, copy_dll_to_test_dir; a
\* stage is started only after every earlier stage completed successfully,
\* and after a stage has failed no later stage is started.
C1_FixedOrderFailFast ==
    LET order == <<"ensure_dirs", "go_mod_init", "go_build", "generate_def",
                   "generate_lib", "copy_dll", "copy_dll_to_test_dir">>
    IN  /\ Len(started) <= Len(order)
        /\ \A i \in 1..Len(started) :
              /\ started[i] = order[i]
              /\ \A j \in 1..(i - 1) : status[order[j]] = "ok"
        /\ \A i \in 1..Len(order) :
              /\ status[order[i]] # "pending" => i <= Len(started)
              /\ status[order[i]] = "failed" => Len(started) = i
        /\ args_clean => started = <<>>

C1_Witness ==
    /\ status["generate_lib"] = "failed"
    /\ Len(started) = 5

\* C2: a finished build-mode run has exit status 0 exactly when all seven
\* stages succeeded, and every fatal failure (a tool exiting non-zero in
\* go_mod_init, go_build, generate_def or generate_lib, the DLL missing after
\* the build, the DEF file not written, the primary copy failing, the
\* auxiliary copy exhausting its attempts) gives exit status 1.
C2_BuildExitStatus ==
    (pc = "exit" /\ ~args_clean) =>
        /\ exit_status \in {0, 1}
        /\ exit_status = 0 <=> (\A s \in Stages : status[s] = "ok")
        /\ failure \in {"go_mod_init", "go_build", "dll_missing", "dumpbin",
                        "def_write", "dlltool", "copy_dll", "aux_copy"}
              => exit_status = 1
        /\ (\E s \in Stages : status[s] = "failed") => exit_status = 1
        /\ (\E i \in 1..Len(cmds) : cmds[i][2] # "ok") => exit_status = 1
        /\ (\E i \in 1..Len(copies) :
                 /\ ~copies[i][3]
                 /\ \/ copies[i][1] = "copy_dll"
                    \/ Len(Failed(AuxCopiesTo(copies[i][2]))) = RETRIES)
              => exit_status = 1
        /\ EXPORT_DLL \notin fs => exit_status = 1
        /\ exit_status = 0 =>
              /\ \A cmd \in {"go build", "dumpbin", "dlltool"} : Invoked(cmd)
              /\ {EXPORT_DLL, EXPORT_DEF, EXPORT_LIB, TARGET_DLL,
                  "target/debug/deps/go_lib.dll"} \subseteq fs

C2_Witness ==
    /\ pc = "exit"
    /\ ~args_clean
    /\ failure = "aux_copy"
    /\ exit_status = 1

\* C4: for each auxiliary destination copy_with_retry makes at most 5 copy
\* attempts and stops at the first success; after the k-th failed attempt,
\* k = 1..4, it sleeps k tenths of a second; after a 5th failed attempt it
\* does not sleep and the run ends with exit status 1.
C4_RetryBackoff ==
    \A dst \in AuxDsts :
        LET tries == AuxCopiesTo(dst)
            nfail == Len(Failed(tries))
            slept == SleepsFor(dst)
        IN  /\ Len(tries) <= 5
            /\ \A i \in 1..(Len(tries) - 1) : ~tries[i][3]
            /\ Len(slept) = (IF nfail < 5 THEN nfail ELSE 4)
            /\ \A k \in 1..Len(slept) : slept[k][2] = k
            /\ nfail = 5 =>
                  /\ pc = "exit"
                  /\ exit_status = 1
                  /\ failure = "aux_copy"
            /\ (Len(tries) > 0 /\ tries[Len(tries)][3]) =>
                  ~(pc = "copy_dll_to_test_dir" /\ attempt >= 1
                    /\ TestDll(TEST_DIRS[test_idx]) = dst)

C4_Witness ==
    /\ Len(Failed(AuxCopiesTo("target/debug/go_lib.dll"))) = 5
    /\ Len(AuxCopiesTo("target/debug/deps/go_lib.dll")) = 3
    /\ exit_status = 1

\* C5: copy_dll attempts the copy to the primary output path at most once in
\* a run, exactly once when the stage returns; when that attempt fails the
\* run ends at once with exit status 1, nothing has slept and the auxiliary
\* copy stage is not started.
C5_PrimaryCopyOnce ==
    LET tries == CopiesOf("copy_dll")
    IN  /\ Len(tries) <= 1
        /\ status["copy_dll"] = "ok" => (Len(tries) = 1 /\ tries[1][3])
        /\ (Len(tries) = 1 /\ ~tries[1][3]) =>
              /\ pc = "exit"
              /\ exit_status = 1
              /\ status["copy_dll"] = "failed"
              /\ sleeps = <<>>
              /\ CopiesOf("copy_dll_to_test_dir") = <<>>
              /\ \A i \in 1..Len(started) : started[i] # "copy_dll_to_test_dir"

C5_Witness ==
    /\ Len(CopiesOf("copy_dll")) = 1
    /\ ~CopiesOf("copy_dll")[1][3]
    /\ pc = "exit"

CleanIndex(path) == CHOOSE i \in 1..Len(CLEAN_PATHS) : CLEAN_PATHS[i] = path

\* C6: in clean mode deletion is attempted for every artifact file that is
\* present, in the order binary, definition file, import library, whichever
\* deletions fail, and cargo clean is invoked after the three files have
\* been visited: a failed deletion stops neither.
C6_CleanContinues ==
    args_clean =>
        /\ \A i \in 1..Len(unlinks) :
              /\ unlinks[i][1] \in {EXPORT_DLL, EXPORT_DEF, EXPORT_LIB}
              /\ CleanIndex(unlinks[i][1]) < clean_idx
              /\ \A j \in 1..(i - 1) :
                    CleanIndex(unlinks[j][1]) < CleanIndex(unlinks[i][1])
              /\ unlinks[i][2] <=> unlinks[i][1] \notin fs
        /\ \A k \in 1..Len(CLEAN_PATHS) :
              (k < clean_idx /\ CLEAN_PATHS[k] \in fs) =>
                 \E i \in 1..Len(unlinks) : unlinks[i] = <<CLEAN_PATHS[k], FALSE>>
        /\ Invoked("cargo clean") => clean_idx = Len(CLEAN_PATHS) + 1
        /\ pc = "exit" =>
              /\ clean_idx = Len(CLEAN_PATHS) + 1
              /\ Len(cmds) = 1
              /\ cmds[1][1] = "cargo clean"

C6_Witness ==
    /\ args_clean
    /\ pc = "exit"
    /\ unlinks = <<<<EXPORT_DLL, FALSE>>, <<EXPORT_DEF, TRUE>>, <<EXPORT_LIB, FALSE>>>>
    /\ Invoked("cargo clean")

\* C7 as stated: a finished clean-mode run has exit status 1 exactly when
\* cargo clean exits non-zero, and exit status 0 otherwise.
C7_CleanExitOnlyNonZero ==
    (args_clean /\ pc = "exit") =>
        /\ exit_status = 1 <=> (Len(cmds) = 1 /\ cmds[1] = <<"cargo clean", "nonzero">>)
        /\ exit_status \in {0, 1}

\* C7 amended: a finished clean-mode run has exit status 0 exactly when cargo
\* clean exits 0, and exit status 1 exactly when cargo clean exits non-zero
\* or cannot be started; the exit status depends on nothing else, neither on
\* which artifact files were present nor on which deletions failed.
C7_CleanExitStatus ==
    (args_clean /\ pc = "exit") =>
        /\ Len(cmds) = 1
        /\ cmds[1][1] = "cargo clean"
        /\ exit_status = 0 <=> cmds[1][2] = "ok"
        /\ exit_status = 1 <=> cmds[1][2] \in {"nonzero", "oserror"}

C7_Witness ==
    /\ args_clean
    /\ pc = "exit"
    /\ exit_status = 0
    /\ \E i \in 1..Len(unlinks) : ~unlinks[i][2]

\* C8: a run is either a build run or a clean run, by args.clean alone: a
\* build-mode run deletes no artifact file and never invokes cargo clean; a
\* clean-mode run never invokes go mod init, go build, dumpbin or dlltool
\* and copies nothing.
C8_ModesExclusive ==
    /\ (pc # "main" /\ ~args_clean) =>
          /\ unlinks = <<>>
          /\ ~Invoked("cargo clean")
          /\ pc # "clean"
    /\ (pc # "main" /\ args_clean) =>
          /\ ~Invoked("go mod init")
          /\ ~Invoked("go build")
          /\ ~Invoked("dumpbin")
          /\ ~Invoked("dlltool")
          /\ copies = <<>>
          /\ started = <<>>
          /\ pc \in {"clean", "exit"}

C8_Witness ==
    /\ run = 2
    /\ args_clean
    /\ pc = "exit"
    /\ Len(unlinks) = 3
    /\ TARGET_DLL \notin fs

\* C9: whenever go.mod exists when go_mod_init is called, no subprocess is
\* invoked and the stage succeeds; the init command is invoked only when
\* go.mod is absent; two calls of which the first one's init command created
\* go.mod make exactly one subprocess invocation in total.
C9_ModInitIdempotent ==
    /\ \A i \in 1..Len(mod_init) :
          /\ mod_init[i][1] => (~mod_init[i][2] /\ mod_init[i][4])
          /\ mod_init[i][2] => ~mod_init[i][1]
    /\ (Len(mod_init) >= 2 /\ mod_init[1][2] /\ mod_init[1][3]) =>
          ~mod_init[2][2]
    /\ status["go_mod_init"] # "pending" =>
          (Invoked("go mod init") <=> mod_init[Len(mod_init)][2])
    /\ status["go_mod_init"] = "pending" => ~Invoked("go mod init")

C9_Witness ==
    /\ Len(mod_init) = 2
    /\ mod_init[1][2]
    /\ mod_init[1][3]
    /\ status["go_mod_init"] = "ok"
    /\ ~Invoked("go mod init")

\* C10: when go build exits 0 and the DLL does not exist afterwards, the run
\* ends with exit status 1 and dumpbin, dlltool and the copies never start;
\* generate_def is started only in states where the DLL exists.
C10_BuildPostcondition ==
    /\ failure = "dll_missing" =>
          /\ pc = "exit"
          /\ exit_status = 1
          /\ started[Len(started)] = "go_build"
          /\ ~Invoked("dumpbin")
          /\ ~Invoked("dlltool")
          /\ copies = <<>>
    /\ (\E i \in 1..Len(cmds) : cmds[i] = <<"go build", "ok">>) =>
          (EXPORT_DLL \notin fs <=> failure = "dll_missing")
    /\ (\E i \in 1..Len(started) : started[i] = "generate_def") =>
          EXPORT_DLL \in fs

C10_Witness ==
    /\ failure = "dll_missing"
    /\ cmds[Len(cmds)] = <<"go build", "ok">>
    /\ EXPORT_DLL \notin fs

\* the claim's reading of a listing: a row qualifies when it has more than 3
\* tokens and its first token consists of decimal digits only
AllDecimal(tok) == Len(tok) > 0 /\ \A i \in 1..Len(tok) : tok[i] \in DecimalDigits
Qualifies(row) == Len(row) > 3 /\ AllDecimal(row[1])

RECURSIVE ExpectedDef(_)
\* EXPORTS, then a newline and token index 3 for every qualifying row
ExpectedDef(rs) ==
    IF rs = <<>> THEN EXPORTS
    ELSE LET front == SubSeq(rs, 1, Len(rs) - 1)
             last == rs[Len(rs)]
         IN  IF Qualifies(last)
             THEN ExpectedDef(front) \o <<"\n">> \o last[4]
             ELSE ExpectedDef(front)

\* C3: generate_def_content returns EXPORTS followed, in line order, by token
\* index 3 of exactly the lines with more than 3 tokens whose first token
\* consists entirely of decimal digits, joined by single newlines without a
\* trailing newline; EXPORTS alone when no line qualifies.
C3_DefContent ==
    def_content # <<>> => def_content = ExpectedDef(rows)

====
